---- MODULE Spec2Model ----
(***************************************************************************)
(* Model of maptk::algo::close_loops_bad_frames_only                       *)
(* (src/maptk/core/algo/close_loops_bad_frames_only.cxx).                  *)
(*                                                                         *)
(* One stitch() call is broken into the steps of its control flow: the     *)
(* entry guard, the first percentage_tracked query, the confirmation       *)
(* loop, the backward search (one matcher invocation per step), the merge  *)
(* loop over the matches of the accepted candidate (one match per step)    *)
(* and the rebuilding of the returned track set.                           *)
(*                                                                         *)
(* Percentages (double in the source) are rationals n/PctDen; the          *)
(* static_cast<unsigned> of line 196 is the truncating division.           *)
(* A track set is the sequence of the ids of its tracks, in vector order;  *)
(* the null track_sptr is NullTrack.  The collaborators the source only    *)
(* calls (track_set::percentage_tracked, track_set::active_tracks,         *)
(* match_features::match, track::append) answer with values drawn from     *)
(* bounded sets at the time of the call; of a match set its size is drawn  *)
(* when the matcher returns and each match when the merge loop reads it.   *)
(***************************************************************************)
EXTENDS Integers, Sequences, FiniteSets, TLC

\* ---------------------------------------------------------------- bounds
MaxFrame == 10
NumTracks == 2
MaxMatches == 2
MaxShotLen == 3

\* percentages are n / PctDen
PctDen == 10
\* values of bf_detection_percent_match_req a configuration may carry
Percents == {-10, -5, 0, 2, 5, 10}
\* values of bf_detection_percent_match_req check_configuration is asked
\* about: the above and some beyond -1 and 1
CheckPercents == Percents \cup {-15, -11, 11, 15}
\* values track_set::percentage_tracked answers with (always in [0,1])
PtVals == {1, 2, 5, 10}
\* values of bf_detection_max_search_length a configuration may carry
\* (5 is the default)
SearchLens == {0, 1, 5}

NullTrack == 0
TrackIds == 1 .. NumTracks
NoFrame == 0

VARIABLES
  bf_detection_enabled_,
  bf_detection_percent_match_req_,
  bf_detection_new_shot_length_,
  bf_detection_max_search_length_,
  pc,
  frame_number,
  input,
  input0,
  all_tracks,
  frame_to_stitch,
  stitch_required,
  frame_to_test,
  last_frame_to_test,
  stitch_frame_set,
  test_frame_set,
  match_index,
  to_remove,
  result,
  hist,
  ptlog,
  probed,
  passed_over,
  appends,
  append_log,
  matched,
  mset_size,
  total_features,
  last_call,
  pt_history,
  frames_done,
  repairs

config == << bf_detection_enabled_, bf_detection_percent_match_req_,
             bf_detection_new_shot_length_, bf_detection_max_search_length_ >>

locals == << all_tracks, frame_to_stitch, stitch_required, frame_to_test,
             last_frame_to_test, stitch_frame_set, test_frame_set,
             match_index, to_remove >>

observed == << input0, ptlog, probed, passed_over, appends, append_log,
               matched, mset_size, total_features >>

\* the caller's side of a sequence of calls: the fixed percentage_tracked
\* value of every transition f-1 -> f (none: the values are free), the last
\* frame stitch was called for, and the frames whose call went on to the
\* backward search
pipeline == << pt_history, frames_done, repairs >>

vars == << config, pc, frame_number, input, locals, result, hist, observed,
          last_call, pipeline >>

\* ------------------------------------------------------- pure operators
\* std::abs
Abs(x) == IF x < 0 THEN -x ELSE x

Range(s) == { s[i] : i \in 1 .. Len(s) }

\* the tracks of a vector whose id is in S, in vector order
Filter(s, S) ==
  LET Keep(t) == t \in S IN SelectSeq(s, Keep)

\* track sets handed to stitch(): tracks with pairwise distinct ids
InputSets == { [ i \in 1 .. n |-> i ] : n \in 0 .. NumTracks }

\* track_set::active_tracks(frame): some of the tracks, in vector order
ActiveSets(s) == { Filter(s, S) : S \in SUBSET Range(s) }

\* match_features::match, mset->size(): how many matches come back; there
\* is none when one of the two frames has no track to index
MatchSizes(nTest, nStitch) ==
  IF nTest = 0 \/ nStitch = 0 THEN { 0 } ELSE 0 .. MaxMatches

\* a match: a pair of indices into the two active-track vectors (1-based
\* here, 0-based in the source)
Matches(nTest, nStitch) == (1 .. nTest) \X (1 .. nStitch)

\* the member function called last, with what it was given and what it
\* answered (NoFrame, FALSE where there is nothing to tell)
ApiCall(op, nsl, nested, req, res) ==
  [ op |-> op, new_shot_length |-> nsl, nested |-> nested, req |-> req,
    result |-> res ]

\* CheckConfiguration without std::abs
CheckConfigurationNoAbs(nested, req) == nested /\ req <= PctDen

\* lines 125-129: check_configuration: the nested matcher's configuration
\* is valid and the requirement is within -1 .. 1
CheckConfiguration(nested, req) == nested /\ Abs(req) <= PctDen

\* lines 51-54: the copy constructor takes the other object's field
CopyOf(field) == field

\* CoerceShotLength leaving a 0 as it is
CoerceNone(n) == n

\* line 117: a configured new_shot_length of 0 becomes 1
CoerceShotLength(n) == IF n # 0 THEN n ELSE 1

\* NotPossible with the frames compared by < : a call on frame
\* new_shot_length goes on to the detector
NotPossibleStrict(enabled, fn, nsl) == ~enabled \/ fn < nsl

\* NotPossible without the test of bf_detection_enabled_
NotPossibleAlwaysOn(enabled, fn, nsl) == fn <= nsl

\* line 146: return the input straight away
NotPossible(enabled, fn, nsl) == ~enabled \/ fn <= nsl

\* FrameToStitch one frame late
FrameToStitchLate(fn, nsl) == fn - nsl + 2

\* FrameToStitch one frame early
FrameToStitchEarly(fn, nsl) == fn - nsl

\* line 153: the first frame of the candidate shot
FrameToStitch(fn, nsl) == fn - nsl + 1

\* WeakCut against the magnitude of the requirement
WeakCutAbs(pt, req) == pt < Abs(req)

\* WeakCut with <= : a transition exactly at the requirement counts as weak
WeakCutLe(pt, req) == pt <= req

\* line 155: the transition into the shot was weak
WeakCut(pt, req) == pt < req

\* StrongStep with the comparison the wrong way round
StrongStepInverted(pt, req) == pt < req

\* line 162: the transition inside the shot is strong
StrongStep(pt, req) == pt >= req

\* FirstFrameToTest starting on the frame right before the shot
FirstFrameToTestPrev(fts) == fts - 1

\* line 173: the search starts two frames before the shot
FirstFrameToTest(fts) == fts - 2

\* LastFrameToTest without the window: the search runs down to frame 1
LastFrameToTestZero(ftt, msl) == 0

\* lines 174-179: the frame the backward search stops above
LastFrameToTest(ftt, msl) == IF ftt > msl THEN ftt - msl ELSE 0

\* line 196: static_cast<unsigned>( percent * total ), percent >= 0
Threshold(req, total) == (req * total) \div PctDen

\* Accept with > : a result exactly at the threshold is turned down
AcceptStrict(msize, req, total) == 2 * msize > Threshold(req, total)

\* line 196: the test of the matcher's result
Accept(msize, req, total) == 2 * msize >= Threshold(req, total)

\* the density the configuration asks for, with nothing cut off:
\* 2 * matches >= percent * total
Sufficient(msize, req, total) == 2 * msize * PctDen >= req * total

\* InputAfter when all_tracks is a reference to the input's vector
InputAliased(in, all) == all

\* line 152: all_tracks is a copy of the vector input->tracks() returns, so
\* what stitch does to all_tracks leaves the input's vector as it was
InputAfter(in, all) == in

\* FailedResult handing back the shot's tracks instead of the input
FailedResultShot(in) == stitch_frame_set

\* line 223: bad frame detection has failed
FailedResult(in) == in

\* lines 214-215: std::remove_if without erase.  The vector keeps its
\* length; the tracks that stay are packed at the front in their order;
\* behind them the elements are left "valid but unspecified": a build that
\* copy-assigns leaves the old elements there, a build that move-assigns
\* leaves a null pointer where a kept track was moved from.
RemoveIf(v, rem, moved) ==
  LET kept == Filter(v, Range(v) \ rem)
      k    == Len(kept)
  IN  [ j \in 1 .. Len(v) |->
          IF j <= k THEN kept[j]
          ELSE IF moved /\ v[j] \notin rem THEN NullTrack
          ELSE v[j] ]

\* track::append( other ) can succeed only when the receiving track's
\* history ends before the other's begins.  The receiving track is seen on
\* the candidate frame and the other on the shot's first frame, so it fails
\* when the receiving track is seen in the shot as well (or has taken one
\* of the shot's tracks already) or the other is seen on the candidate
\* frame; otherwise the answer is the collaborator's.
TrackAppendOk(h, recv, other, test_frame_trks, stitch_frame_trks, answer) ==
  /\ answer
  /\ recv \notin Range(stitch_frame_trks)
  /\ other \notin Range(test_frame_trks)
  /\ h[recv] = {}

\* track::append( other ): on success the receiving track carries the
\* other track's observations as well
TrackAppend(h, recv, other, ok) ==
  IF ok THEN [ h EXCEPT ![recv] = @ \cup {other} \cup h[other] ] ELSE h

\* RetireAlways: the id of the shot's track is retired whatever the append
\* answered
RetireAlways(rem, other, ok) == rem \cup { other }

\* lines 206-209: the id of the shot's track is retired when its append
\* succeeded
Retire(rem, other, ok) == IF ok THEN rem \cup { other } ELSE rem

\* lines 212-218: the vector the returned simple_track_set is built from
Rebuild(all, rem, moved) ==
  IF rem # {} THEN RemoveIf(all, rem, moved) ELSE all

\* the builds whose std::remove_if can be told apart: when nothing is
\* removed the vector is not touched
MoveBuilds(rem) == IF rem # {} THEN BOOLEAN ELSE { FALSE }

NoHist == [ t \in TrackIds |-> {} ]

\* no fixed history: percentage_tracked may answer any value
NoPtHistory == << >>

\* lines 154, 161: what percentage_tracked( f-1, f ) may answer
PtAnswers(h, f) ==
  IF f \in DOMAIN h THEN { h[f] } ELSE PtVals

\* the histories over the frames 1 .. MaxFrame in which the transition
\* k-1 -> k has the value w and every other transition the value s
PtHistory(k, w, s) ==
  [ f \in 2 .. MaxFrame |-> IF f = k THEN w ELSE s ]

\* ------------------------------------------------------------------ Init
\* lines 39-45: the default constructor; no call in progress
Init ==
  /\ bf_detection_enabled_ = TRUE
  /\ bf_detection_percent_match_req_ = 2
  /\ bf_detection_new_shot_length_ = 2
  /\ bf_detection_max_search_length_ = 5
  /\ pc = "idle"
  /\ frame_number = NoFrame
  /\ input = << >>
  /\ input0 = << >>
  /\ all_tracks = << >>
  /\ frame_to_stitch = NoFrame
  /\ stitch_required = FALSE
  /\ frame_to_test = NoFrame
  /\ last_frame_to_test = NoFrame
  /\ stitch_frame_set = << >>
  /\ test_frame_set = << >>
  /\ match_index = 0
  /\ to_remove = {}
  /\ result = << >>
  /\ hist = NoHist
  /\ ptlog = << >>
  /\ probed = << >>
  /\ passed_over = {}
  /\ appends = 0
  /\ append_log = << >>
  /\ matched = FALSE
  /\ mset_size = 0
  /\ total_features = 0
  /\ last_call = ApiCall("construct", 0, FALSE, 0, FALSE)
  /\ pt_history = NoPtHistory
  /\ frames_done = 0
  /\ repairs = {}

\* --------------------------------------------------------------- actions
\* lines 97-118: set_configuration, between calls
SetConfiguration ==
  /\ pc = "idle"
  /\ \E en \in BOOLEAN, req \in Percents,
        nsl \in 0 .. MaxShotLen, msl \in SearchLens :
       /\ bf_detection_enabled_' = en
       /\ bf_detection_percent_match_req_' = req
       /\ bf_detection_max_search_length_' = msl
       /\ bf_detection_new_shot_length_' = CoerceShotLength(nsl)
       /\ last_call' = ApiCall("set_configuration", nsl, FALSE, 0, FALSE)
  /\ UNCHANGED << pc, frame_number, input, locals, result, hist, observed >>
  /\ UNCHANGED pipeline

\* lines 121-130: check_configuration, between calls; it is const
CheckConfigurationCall ==
  /\ pc = "idle"
  /\ \E nested \in BOOLEAN, req \in CheckPercents :
       last_call' = ApiCall("check_configuration", 0, nested, req,
                            CheckConfiguration(nested, req))
  /\ UNCHANGED << config, pc, frame_number, input, locals, result, hist,
                  observed >>
  /\ UNCHANGED pipeline

\* lines 48-56: the copy constructor; the copy is the object from here on
CopyConstruct ==
  /\ pc = "idle"
  /\ bf_detection_enabled_' = CopyOf(bf_detection_enabled_)
  /\ bf_detection_percent_match_req_' = CopyOf(bf_detection_percent_match_req_)
  /\ bf_detection_new_shot_length_' = CopyOf(bf_detection_new_shot_length_)
  /\ bf_detection_max_search_length_' = CopyOf(bf_detection_max_search_length_)
  /\ last_call' = ApiCall("copy", 0, FALSE, 0, FALSE)
  /\ UNCHANGED << pc, frame_number, input, locals, result, hist, observed >>
  /\ UNCHANGED pipeline

\* line 143: stitch( frame_number, input ) is called
StitchCall ==
  /\ pc = "idle"
  /\ \E fn \in 1 .. MaxFrame, in \in InputSets :
       /\ frame_number' = fn
       /\ input' = in
       /\ input0' = in
  /\ pc' = "entry"
  /\ last_call' = ApiCall("stitch", 0, FALSE, 0, FALSE)
  /\ UNCHANGED << config, locals, result, hist, ptlog, probed, passed_over,
                  appends, append_log, matched, mset_size, total_features >>
  /\ UNCHANGED pipeline

\* lines 146-149: not enabled, or not enough frames for a new shot
ReturnNotPossible ==
  /\ pc = "entry"
  /\ NotPossible(bf_detection_enabled_, frame_number,
                 bf_detection_new_shot_length_)
  /\ result' = input
  /\ pc' = "done"
  /\ UNCHANGED << config, frame_number, input, locals, hist, observed, last_call >>
  /\ UNCHANGED pipeline

\* lines 152-158: the transition into the candidate shot
DetectCut ==
  /\ pc = "entry"
  /\ ~NotPossible(bf_detection_enabled_, frame_number,
                  bf_detection_new_shot_length_)
  /\ LET fts == FrameToStitch(frame_number, bf_detection_new_shot_length_)
     IN  /\ all_tracks' = input
         /\ frame_to_stitch' = fts
         /\ \E pt \in PtAnswers(pt_history, fts) :
              /\ ptlog' = Append(ptlog, << fts - 1, fts, pt >>)
              /\ stitch_required' = WeakCut(pt, bf_detection_percent_match_req_)
         /\ frame_to_test' = fts + 1
  /\ pc' = "confirm"
  /\ UNCHANGED << config, frame_number, input, last_frame_to_test,
                  stitch_frame_set, test_frame_set, match_index,
                  to_remove, result, hist, input0,
                  probed, passed_over, appends, append_log, matched, mset_size,
                  total_features, last_call >>
  /\ UNCHANGED pipeline

\* lines 159-164: one turn of the loop over the shot's transitions
ConfirmShot ==
  /\ pc = "confirm"
  /\ stitch_required /\ frame_to_test <= frame_number
  /\ \E pt \in PtAnswers(pt_history, frame_to_test) :
       /\ ptlog' = Append(ptlog, << frame_to_test - 1, frame_to_test, pt >>)
       /\ stitch_required' = StrongStep(pt, bf_detection_percent_match_req_)
  /\ frame_to_test' = frame_to_test + 1
  /\ UNCHANGED << config, pc, frame_number, input, all_tracks, frame_to_stitch,
                  last_frame_to_test, stitch_frame_set, test_frame_set,
                  match_index, to_remove, result, hist, input0, probed, passed_over, appends, append_log, matched,
                  mset_size, total_features, last_call >>
  /\ UNCHANGED pipeline

\* lines 167-170: no stitch is to be attempted
ReturnNotRequired ==
  /\ pc = "confirm"
  /\ ~(stitch_required /\ frame_to_test <= frame_number)
  /\ ~stitch_required
  /\ result' = input
  /\ pc' = "done"
  /\ UNCHANGED << config, frame_number, input, locals, hist, observed, last_call >>
  /\ UNCHANGED pipeline

\* lines 173-181: the window of the backward search and the shot's tracks
StartSearch ==
  /\ pc = "confirm"
  /\ ~(stitch_required /\ frame_to_test <= frame_number)
  /\ stitch_required
  /\ frame_to_test' = FirstFrameToTest(frame_to_stitch)
  /\ last_frame_to_test' =
       LastFrameToTest(frame_to_test', bf_detection_max_search_length_)
  /\ stitch_frame_set' \in ActiveSets(input)
  /\ pc' = "search"
  /\ UNCHANGED << config, frame_number, input, all_tracks, frame_to_stitch,
                  stitch_required, test_frame_set, match_index, to_remove,
                  result, hist, observed, last_call >>
  /\ repairs' = IF pt_history = NoPtHistory THEN repairs
                 ELSE repairs \cup { frame_number }
  /\ UNCHANGED << pt_history, frames_done >>

\* lines 183-196: one candidate frame: its active tracks, the matcher and
\* the test of its result
Probe ==
  /\ pc = "search"
  /\ frame_to_test > last_frame_to_test
  /\ \E test \in ActiveSets(input) :
     \E msize \in MatchSizes(Len(test), Len(stitch_frame_set)) :
       LET total == Len(test) + Len(stitch_frame_set)
       IN  /\ mset_size' = msize
           /\ total_features' = total
           /\ IF Accept(msize, bf_detection_percent_match_req_, total)
              THEN /\ test_frame_set' = test
                   /\ match_index' = 1
                   /\ matched' = TRUE
                   /\ pc' = "merge"
                   /\ UNCHANGED << frame_to_test, passed_over >>
              ELSE /\ frame_to_test' = frame_to_test - 1
                   /\ passed_over' =
                        IF Sufficient(msize, bf_detection_percent_match_req_,
                                      total)
                        THEN passed_over \cup { frame_to_test }
                        ELSE passed_over
                   /\ UNCHANGED << test_frame_set, match_index, matched, pc >>
  /\ probed' = Append(probed, frame_to_test)
  /\ UNCHANGED << config, frame_number, input, input0, all_tracks,
                  frame_to_stitch, stitch_required, last_frame_to_test,
                  stitch_frame_set, to_remove, result, hist, ptlog, appends, append_log, last_call >>
  /\ UNCHANGED pipeline

\* lines 204-210: one match of the accepted candidate: the append, and the
\* id of the shot's track retired when it succeeds
MergeMatch ==
  /\ pc = "merge"
  /\ match_index <= mset_size
  /\ \E match \in Matches(Len(test_frame_set), Len(stitch_frame_set)),
        answer \in BOOLEAN :
       LET recv  == test_frame_set[ match[1] ]
           other == stitch_frame_set[ match[2] ]
           ok    == TrackAppendOk(hist, recv, other, test_frame_set,
                                  stitch_frame_set, answer)
       IN  /\ hist' = TrackAppend(hist, recv, other, ok)
           /\ to_remove' = Retire(to_remove, other, ok)
           /\ append_log' = Append(append_log,
                                    IF ok THEN other ELSE NullTrack)
  /\ appends' = appends + 1
  /\ match_index' = match_index + 1
  /\ UNCHANGED << config, pc, frame_number, input, input0, all_tracks,
                  frame_to_stitch, stitch_required, frame_to_test,
                  last_frame_to_test, stitch_frame_set, test_frame_set,
                  result, ptlog, probed, passed_over, matched, mset_size,
                  total_features, last_call >>
  /\ UNCHANGED pipeline

\* lines 204, 212-218: the matches are done; the retired tracks are taken
\* out of all_tracks and a new track set is returned
ReturnMerged ==
  /\ pc = "merge"
  /\ ~(match_index <= mset_size)
  /\ \E moved \in MoveBuilds(to_remove) :
       all_tracks' = Rebuild(all_tracks, to_remove, moved)
  /\ input' = InputAfter(input, all_tracks')
  /\ result' = all_tracks'
  /\ test_frame_set' = << >>
  /\ stitch_frame_set' = << >>
  /\ pc' = "done"
  /\ UNCHANGED << config, frame_number, input0, frame_to_stitch,
                  stitch_required, frame_to_test, last_frame_to_test,
                  match_index, to_remove, hist, ptlog,
                  probed, passed_over, appends, append_log, matched, mset_size,
                  total_features, last_call >>
  /\ UNCHANGED pipeline

\* lines 183, 222-223: the window is exhausted
ReturnFailed ==
  /\ pc = "search"
  /\ ~(frame_to_test > last_frame_to_test)
  /\ result' = FailedResult(input)
  /\ pc' = "done"
  /\ UNCHANGED << config, frame_number, input, locals, hist, observed, last_call >>
  /\ UNCHANGED pipeline

\* the caller has taken the returned track set; nothing of the call is
\* kept (stitch is const and has no state besides the configuration)
Finish ==
  /\ pc = "done"
  /\ pc' = "idle"
  /\ frame_number' = NoFrame
  /\ input' = << >>
  /\ input0' = << >>
  /\ all_tracks' = << >>
  /\ frame_to_stitch' = NoFrame
  /\ stitch_required' = FALSE
  /\ frame_to_test' = NoFrame
  /\ last_frame_to_test' = NoFrame
  /\ stitch_frame_set' = << >>
  /\ test_frame_set' = << >>
  /\ match_index' = 0
  /\ to_remove' = {}
  /\ result' = << >>
  /\ hist' = NoHist
  /\ ptlog' = << >>
  /\ probed' = << >>
  /\ passed_over' = {}
  /\ appends' = 0
  /\ append_log' = << >>
  /\ matched' = FALSE
  /\ mset_size' = 0
  /\ total_features' = 0
  /\ UNCHANGED << config, last_call >>
  /\ frames_done' = IF pt_history = NoPtHistory THEN frames_done
                     ELSE frame_number
  /\ UNCHANGED << pt_history, repairs >>

Next ==
  \/ SetConfiguration
  \/ CheckConfigurationCall
  \/ CopyConstruct
  \/ StitchCall
  \/ ReturnNotPossible
  \/ DetectCut
  \/ ConfirmShot
  \/ ReturnNotRequired
  \/ StartSearch
  \/ Probe
  \/ MergeMatch
  \/ ReturnMerged
  \/ ReturnFailed
  \/ Finish

Spec == Init /\ [][Next]_vars

\* ------------------------------------------- a sequence of calls
\* lines 39-45, 97-118: a configured object, and a history of the video
\* with one weak transition, k-1 -> k
SeqInit ==
  /\ bf_detection_enabled_ \in BOOLEAN
  /\ bf_detection_percent_match_req_ \in Percents
  /\ bf_detection_new_shot_length_ \in
       { CoerceShotLength(nsl) : nsl \in 0 .. MaxShotLen }
  /\ bf_detection_max_search_length_ \in SearchLens
  /\ pc = "idle"
  /\ frame_number = NoFrame
  /\ input = << >>
  /\ input0 = << >>
  /\ all_tracks = << >>
  /\ frame_to_stitch = NoFrame
  /\ stitch_required = FALSE
  /\ frame_to_test = NoFrame
  /\ last_frame_to_test = NoFrame
  /\ stitch_frame_set = << >>
  /\ test_frame_set = << >>
  /\ match_index = 0
  /\ to_remove = {}
  /\ result = << >>
  /\ hist = NoHist
  /\ ptlog = << >>
  /\ probed = << >>
  /\ passed_over = {}
  /\ appends = 0
  /\ append_log = << >>
  /\ matched = FALSE
  /\ mset_size = 0
  /\ total_features = 0
  /\ last_call = ApiCall("set_configuration",
                         bf_detection_new_shot_length_, FALSE, 0, FALSE)
  /\ pt_history \in
       { PtHistory(k, w, s) :
           k \in 2 .. MaxFrame,
           w \in { v \in PtVals : WeakCut(v, bf_detection_percent_match_req_) },
           s \in { v \in PtVals : StrongStep(v, bf_detection_percent_match_req_) } }
  /\ frames_done = 0
  /\ repairs = {}

\* line 143: stitch is called for the next frame of the video
SeqStitchCall ==
  /\ pc = "idle"
  /\ frames_done < MaxFrame
  /\ frame_number' = frames_done + 1
  /\ \E in \in InputSets :
       /\ input' = in
       /\ input0' = in
  /\ pc' = "entry"
  /\ last_call' = ApiCall("stitch", 0, FALSE, 0, FALSE)
  /\ UNCHANGED << config, locals, result, hist, ptlog, probed, passed_over,
                  appends, append_log, matched, mset_size, total_features >>
  /\ UNCHANGED pipeline

SeqNext ==
  \/ SeqStitchCall
  \/ ReturnNotPossible
  \/ DetectCut
  \/ ConfirmShot
  \/ ReturnNotRequired
  \/ StartSearch
  \/ Probe
  \/ MergeMatch
  \/ ReturnMerged
  \/ ReturnFailed
  \/ Finish

SeqSpec == SeqInit /\ [][SeqNext]_vars

\* --------------------------------------------------------------- claims
Req == bf_detection_percent_match_req_
ShotLength == bf_detection_new_shot_length_
ShotStart == frame_number - bf_detection_new_shot_length_ + 1

InCall == pc \in { "entry", "confirm", "search", "merge", "done" }

\* the detector has given its answer in stitch_required
Detected == pc \in { "search", "merge", "done" } /\ ptlog # << >>

\* the probe just made, or the last one of the call, and what it saw
Probed == probed # << >>

\* the non-null tracks of a vector
Tracks(v) == Filter(v, Range(v) \ { NullTrack })

\* C1: the detector's answer.  The transitions are queried in order from
\* the cut (shot_start-1, shot_start) on; stitch_required is true exactly
\* when every transition of the shot was queried, the cut was below the
\* requirement and every later one at or above it; when it is false the
\* last transition queried is the one that decides it (a cut that is not
\* weak, or a weak transition inside the shot), whatever the transitions not
\* queried are.  With new_shot_length 2, requirement 0.2, frame 10:
\* 0.1 then 0.5 gives true, 0.1 then 0.1 gives false.
C1_DetectorDecision ==
  Detected =>
    /\ \A i \in 1 .. Len(ptlog) :
         /\ ptlog[i][1] = ShotStart + i - 2
         /\ ptlog[i][2] = ShotStart + i - 1
    /\ Len(ptlog) <= ShotLength
    /\ stitch_required <=>
         /\ Len(ptlog) = ShotLength
         /\ ptlog[1][3] < Req
         /\ \A i \in 2 .. Len(ptlog) : ptlog[i][3] >= Req
    /\ ~stitch_required =>
         \/ Len(ptlog) = 1 /\ ptlog[1][3] >= Req
         \/ /\ Len(ptlog) > 1
            /\ ptlog[1][3] < Req
            /\ \A i \in 2 .. Len(ptlog) - 1 : ptlog[i][3] >= Req
            /\ ptlog[Len(ptlog)][3] < Req
    /\ (ShotLength = 2 /\ Req = 2 /\ frame_number = 10) =>
         /\ ptlog = << << 8, 9, 1 >>, << 9, 10, 5 >> >> => stitch_required
         /\ ptlog = << << 8, 9, 1 >>, << 9, 10, 1 >> >> => ~stitch_required

C1_Witness ==
  /\ Detected
  /\ ShotLength = 2 /\ Req = 2 /\ frame_number = 10
  /\ ptlog = << << 8, 9, 1 >>, << 9, 10, 5 >> >>
  /\ stitch_required

\* C2: nearest first.  When a candidate is merged it is the largest frame
\* of the window whose matches are sufficient (2*matches >= percent*total):
\* it is sufficient itself, no nearer frame that was sufficient was passed
\* over, and the matcher ran on the frames from shot_start-2 down to it and
\* on no other.
C2_NearestSufficient ==
  matched =>
    /\ Sufficient(mset_size, Req, total_features)
    /\ passed_over = {}
    /\ probed = [ i \in 1 .. Len(probed) |-> ShotStart - 1 - i ]
    /\ probed[Len(probed)] = frame_to_test
    /\ frame_to_test > last_frame_to_test

\* C3: the acceptance rule.  A probed candidate is accepted exactly when
\* 2*matches >= percent*total, the product not cut off.
C3_AcceptIffSufficient ==
  Probed =>
    ( matched <=> Sufficient(mset_size, Req, total_features) )

\* C4: merge removal.  After an accepted candidate the returned track set
\* is the input without the retired tracks: no retired id in it, and
\* |input| - |retired| tracks.
C4_RetiredRemoved ==
  (pc = "done" /\ matched) =>
    /\ result = Filter(input0, Range(input0) \ to_remove)
    /\ Range(result) \cap to_remove = {}
    /\ Len(result) = Len(input0) - Cardinality(to_remove)

\* C5: the ids of the tracks of a returned track set are pairwise distinct.
C5_UniqueIds ==
  pc = "done" =>
    \A i, j \in 1 .. Len(Tracks(result)) :
      Tracks(result)[i] = Tracks(result)[j] => i = j

\* C6: exhaustion.  When the detector asked for a stitch and no candidate
\* of the window was accepted (the window may be empty), the call returns
\* the input as it was and no track was appended to.
C6_Exhaustion ==
  (pc = "done" /\ stitch_required /\ ~matched) =>
    /\ result = input0
    /\ hist = NoHist
    /\ appends = 0
    /\ to_remove = {}

C6_Witness ==
  /\ pc = "done" /\ stitch_required /\ ~matched
  /\ Len(probed) >= 2
  /\ input0 # << >>
  /\ result = input0

\* C7: a call on a frame not beyond new_shot_length returns the input as it
\* was, and does so without a percentage_tracked query, a matcher
\* invocation or an append.
C7_ShortHistory ==
  (InCall /\ frame_number <= ShotLength) =>
    /\ pc \in { "entry", "done" }
    /\ ptlog = << >>
    /\ probed = << >>
    /\ appends = 0
    /\ hist = NoHist
    /\ pc = "done" => result = input0

C7_Witness ==
  /\ pc = "done"
  /\ bf_detection_enabled_
  /\ frame_number = ShotLength
  /\ Len(input0) = NumTracks
  /\ result = input0

\* C8: with bf_detection_enabled_ false the call returns the input as it
\* was, for every frame and every other configuration value, and asks
\* nothing of the tracked-percentage history, the matcher or the tracks.
C8_DisabledIdentity ==
  (InCall /\ ~bf_detection_enabled_) =>
    /\ pc \in { "entry", "done" }
    /\ ptlog = << >>
    /\ probed = << >>
    /\ appends = 0
    /\ hist = NoHist
    /\ pc = "done" => result = input0

C8_Witness ==
  /\ pc = "done"
  /\ ~bf_detection_enabled_
  /\ frame_number > ShotLength
  /\ Req = 2
  /\ Len(input0) = NumTracks
  /\ result = input0

\* C9: the boundary is inclusive.  A probed candidate whose 2*matches is
\* exactly percent*total is accepted.
C9_BoundaryInclusive ==
  (Probed /\ 2 * mset_size * PctDen = Req * total_features) =>
    (matched /\ pc \in { "merge", "done" })

C9_Witness ==
  /\ pc = "done" /\ matched
  /\ mset_size >= 1
  /\ 2 * mset_size * PctDen = Req * total_features

\* C10: the input track set enumerates the same tracks, in the same order,
\* throughout a call and after it, whatever the call merged or retired.
C10_InputMembership ==
  InCall => input = input0

C10_Witness ==
  /\ pc = "done" /\ matched
  /\ to_remove # {}
  /\ result # input0
  /\ hist # NoHist
  /\ input = input0

\* C11: append failures are swallowed.  The merge loop makes one append
\* per match of the accepted candidate, in order, to the last one whatever
\* the appends answer; the retired ids are exactly the ids of the shot's
\* tracks whose append succeeded, so a failed append retires nothing; the
\* call still returns a track set, and when every append failed that track
\* set is the input as it was.
C11_AppendFailuresSwallowed ==
  /\ Len(append_log) = appends
  /\ pc = "merge" => appends = match_index - 1
  /\ to_remove = Range(append_log) \ { NullTrack }
  /\ (pc = "done" /\ matched) =>
       /\ appends = mset_size
       /\ Len(result) = Len(input0)
       /\ (\A i \in 1 .. Len(append_log) : append_log[i] = NullTrack) =>
            (to_remove = {} /\ result = input0 /\ hist = NoHist)

C11_Witness ==
  /\ pc = "done" /\ matched
  /\ Len(append_log) = 2
  /\ append_log[1] = NullTrack
  /\ append_log[2] # NullTrack
  /\ to_remove = { append_log[2] }

\* the steps of a stitch call, from the guard to the return
CallStep ==
  \/ ReturnNotPossible
  \/ DetectCut
  \/ ConfirmShot
  \/ ReturnNotRequired
  \/ StartSearch
  \/ Probe
  \/ MergeMatch
  \/ ReturnMerged
  \/ ReturnFailed

\* an upper bound of the steps a call has left
Rank ==
  CASE pc = "entry"   -> bf_detection_new_shot_length_
                           + bf_detection_max_search_length_ + MaxMatches + 5
    [] pc = "confirm" -> (frame_number + 1 - frame_to_test)
                           + bf_detection_max_search_length_ + MaxMatches + 4
    [] pc = "search"  -> (frame_to_test - last_frame_to_test) + MaxMatches + 3
    [] pc = "merge"   -> (mset_size + 1 - match_index) + 1
    [] OTHER          -> 0

\* C12: every call terminates with a returned track set.  A call that has
\* not returned can always take a step, every step brings the return
\* nearer (Rank falls and is never negative), the only way out of a call
\* is the return, the loop of the detector makes at most
\* new_shot_length - 1 turns and the search at most max_search_length
\* matcher invocations.
C12_Terminates ==
  /\ [](Rank >= 0)
  /\ []((InCall /\ pc # "done") => ENABLED CallStep)
  /\ [][CallStep => Rank' < Rank]_vars
  /\ [][(InCall /\ pc # "done") => pc' # "idle"]_vars
  /\ [](InCall => /\ Len(ptlog) <= bf_detection_new_shot_length_
                  /\ Len(probed) <= bf_detection_max_search_length_)
  /\ [](pc = "done" => Len(result) = Len(input0))

C12_Witness ==
  /\ pc = "done" /\ matched
  /\ Len(ptlog) = MaxShotLen
  /\ Len(probed) = 5
  /\ bf_detection_max_search_length_ = 5
  /\ appends = MaxMatches

C14_ShotLengthPositive ==
  /\ bf_detection_new_shot_length_ >= 1
  /\ (last_call.op = "set_configuration" /\ last_call.new_shot_length = 0)
       => bf_detection_new_shot_length_ = 1

C14_Witness ==
  /\ last_call.op = "set_configuration"
  /\ last_call.new_shot_length = 0
  /\ bf_detection_new_shot_length_ = 1

SearchLength == bf_detection_max_search_length_

\* what the percentage_tracked queries made so far say: a weak cut and a
\* strong transition at every later frame of the shot
LogAsksForStitch ==
  /\ Len(ptlog) = ShotLength
  /\ ptlog[1][3] < Req
  /\ \A i \in 2 .. Len(ptlog) : ptlog[i][3] >= Req

\* C15: the search window.  The matcher runs on shot_start-2, then on the
\* frame below, and so on, each frame once, on frames above
\* max(0, shot_start-2-max_search_length) only: at most max_search_length
\* of them, never shot_start-1, never frame 0, never a frame of the shot.
C15_SearchWindow ==
  InCall =>
    /\ Len(probed) <= SearchLength
    /\ \A i \in 1 .. Len(probed) :
         /\ probed[i] = ShotStart - 1 - i
         /\ probed[i] <= ShotStart - 2
         /\ probed[i] > 0
         /\ probed[i] > ShotStart - 2 - SearchLength
    /\ \A i, j \in 1 .. Len(probed) : i < j => probed[i] > probed[j]

C15_Witness ==
  /\ pc = "done"
  /\ frame_number = 10 /\ ShotLength = 2 /\ SearchLength = 5
  /\ probed = << 7, 6, 5, 4, 3 >>

\* C16: the order of a call.  The matcher runs only when the queries of
\* the detector ask for a stitch; an append happens only once a candidate
\* is accepted, on the matches of that candidate, the last frame the
\* matcher ran on; a call whose detector does not ask for a stitch returns
\* the input with no matcher invocation and no append.
C16_Ordering ==
  /\ (probed # << >> \/ pc \in { "search", "merge" }) =>
       (stitch_required /\ LogAsksForStitch)
  /\ (appends > 0 \/ hist # NoHist \/ to_remove # {}) =>
       /\ matched
       /\ pc \in { "merge", "done" }
       /\ appends <= mset_size
       /\ probed[Len(probed)] = frame_to_test
  /\ matched => (probed # << >> /\ probed[Len(probed)] = frame_to_test)
  /\ (pc = "done" /\ ptlog # << >> /\ ~LogAsksForStitch) =>
       /\ ~stitch_required
       /\ probed = << >>
       /\ appends = 0
       /\ hist = NoHist
       /\ result = input0

C16_Witness ==
  /\ pc = "done" /\ matched
  /\ LogAsksForStitch
  /\ Len(probed) = 2
  /\ appends = 2
  /\ to_remove # {}

\* C18: no frame number goes below zero.  In a call that passes the guard
\* shot_start is at least 2 and the search starts at shot_start-2 >= 0;
\* percentage_tracked is asked about pairs (f-1, f) with f from shot_start
\* to frame_number only; active_tracks and the matcher see frames from 1
\* to frame_number only.
C18_NoUnderflow ==
  /\ frame_to_stitch >= 0 /\ frame_to_test >= 0 /\ last_frame_to_test >= 0
  /\ (InCall /\ ptlog # << >>) =>
       /\ frame_number > ShotLength /\ ShotLength >= 1
       /\ frame_to_stitch = ShotStart
       /\ frame_to_stitch >= 2
       /\ frame_to_stitch <= frame_number
       /\ \A i \in 1 .. Len(ptlog) :
            /\ ptlog[i][1] = ptlog[i][2] - 1
            /\ ptlog[i][1] >= 1
            /\ frame_to_stitch <= ptlog[i][2]
            /\ ptlog[i][2] <= frame_number
       /\ \A i \in 1 .. Len(probed) :
            probed[i] >= 1 /\ probed[i] <= frame_number
       /\ pc \in { "search", "merge" } =>
            frame_to_test <= frame_to_stitch - 2

C18_Witness ==
  /\ pc = "search"
  /\ frame_number = ShotLength + 1
  /\ frame_to_stitch = 2
  /\ frame_to_test = 0
  /\ ptlog[1] = << 1, 2, 1 >>

OneWeakTransition ==
  /\ pt_history # NoPtHistory
  /\ \E k \in DOMAIN pt_history :
       /\ pt_history[k] < Req
       /\ \A f \in DOMAIN pt_history \ { k } : pt_history[f] >= Req

\* the frame k of the weak transition k-1 -> k
WeakFrame == CHOOSE k \in DOMAIN pt_history : pt_history[k] < Req

RepairFrame == WeakFrame + ShotLength - 1

\* the backward search is entered in the call of RepairFrame and in no
\* other call; every other call returns its input, the matcher not invoked
SingleRepair ==
  /\ repairs \subseteq { RepairFrame }
  /\ frames_done >= RepairFrame => repairs = { RepairFrame }
  /\ (InCall /\ frame_number = RepairFrame /\ pc = "done") =>
       repairs = { RepairFrame }
  /\ (InCall /\ frame_number # RepairFrame) =>
       /\ pc \notin { "search", "merge" }
       /\ probed = << >>
       /\ appends = 0
       /\ pc = "done" => result = input0

\* C17 as stated: over calls made once per frame in increasing order on a
\* history whose only weak transition is k-1 -> k, a repair is attempted
\* in exactly one call, the one of frame k + new_shot_length - 1, and every
\* other call returns its input without a matcher invocation.
C17_AsStated == OneWeakTransition => SingleRepair

\* C17, amended: the same, for an object whose bad-frame detection is
\* enabled.
C17_SingleRepairWhenEnabled ==
  (OneWeakTransition /\ bf_detection_enabled_) => SingleRepair

C17_Witness ==
  /\ OneWeakTransition /\ bf_detection_enabled_
  /\ WeakFrame = 5 /\ ShotLength = 3
  /\ repairs = { 7 }
  /\ pc = "done" /\ frame_number = 9
  /\ ptlog = << << 6, 7, pt_history[7] >> >>
  /\ result = input0

====
